---- MODULE Spec2Model ----
(***************************************************************************)
(* A model of BIO's precedence-graph engine (src/mod_graph.py), of the     *)
(* configuration lookups it uses (src/mod_config.py) and of the run that   *)
(* drives it (src/bio.py, ModAnalysis.mod_analysis).                       *)
(*                                                                         *)
(* Numbers.  The source computes ratios and scores in floating point.      *)
(* Here a ratio or a score is an exact rational <<num, den>> in lowest     *)
(* terms.  The inputs are drawn from sets on which every value the code    *)
(* computes is rational (see Normalize); round() is modelled as Python 2   *)
(* rounds (half away from zero).                                           *)
(*                                                                         *)
(* Iteration order.  The source iterates over Python 2 dictionaries, whose *)
(* order is not specified.  Wherever the order decides the outcome (the    *)
(* depth-first search of get_cycle, the list of roots of tsort_graph) the  *)
(* model takes every order.                                                *)
(***************************************************************************)
EXTENDS Integers, Sequences, FiniteSets, TLC

\* Number of archives of a run.
NumMods == 3
\* Largest number of edges of a graph handed to break_cycles or tsort_graph.
MaxEdges == 3
\* Largest number of forced precedences of a configuration.
MaxForced == 2

ModNames == <<"A", "B", "C", "D", "E", "F">>
Mods == {ModNames[i] : i \in 1..NumMods}
\* All the directed pairs of distinct archives (add_edge_datafile is only
\* called with mod1 != mod2, bio.py:160).
Pairs == {e \in Mods \X Mods : e[1] # e[2]}

VARIABLES
    pc,                  \* position of the run
    err,                 \* the exception that ended the run, "" when none
    cfg,                 \* ModConfig: size_coeff, mtime_coeff, fc_coeff,
                         \*   coefficient, precedence
    mod_list,            \* ModAnalysis.mod_list
    free_mod,            \* ModAnalysis.free_mod
    ordered_overlap_mod, \* ModAnalysis.ordered_overlap_mod
    mod_nodes,           \* keys of ModGraph.mod_nodes
    file_count,          \* _ModProps.file_count of each archive
    install_index,       \* _ModProps.install_index, a mod is in the domain
                         \*   once its index is set (None otherwise)
    mod_edges,           \* ModGraph.mod_edges as a set of <<mod1, mod2>>
    datafiles,           \* _ModEdge.datafiles: edge -> file -> _FileProps
    norm,                \* _ModEdge.norm_size_ratio, norm_mtime_ratio,
                         \*   norm_fc_ratio of each edge
    score,               \* _ModEdge.score, an edge is in the domain once set
    val,                 \* _ModEdge.val (set by break_cycles)
    removed,             \* the edges whose _ModEdge.removed is True
    maxr,                \* _ModEdge.max_size_ratio, max_mtime_ratio,
                         \*   max_fc_ratio (class attributes)
    cand,                \* break_cycles: the local list FAS
    FAS,                 \* ModGraph.FAS
    k,                   \* break_cycles: index of the Pass-2 loop
    graph,               \* tsort_graph: the edges of the working copy
    roots,               \* tsort_graph: the list roots
    ordered,             \* tsort_graph: the local list ordered_overlap_mod
    built,               \* history: the edges overlapping_datafiles_to_graph added
    path,                \* ModConfig.path: excluded_arc_dirs
    archives,            \* input: what the archive tool lists for each archive,
                         \*   a sequence of [name, size, mtime, hash]
    pending,             \* traverse_archives: the archives still to be walked
    datafile_list,       \* ModAnalysis.datafile_list: file -> hash -> version
    overlapping_datafiles, \* ModAnalysis.overlapping_datafiles
    suspicious_files,    \* ModAnalysis.suspicious_files
    run,                 \* history: 1, and 2 once the scoring is run again
    first_score,         \* history: the scores the first run stored
    first_edges          \* history: the edges the first run left

vars == <<pc, err, cfg, mod_list, free_mod, ordered_overlap_mod, mod_nodes,
          file_count, install_index, mod_edges, datafiles, norm, score, val,
          removed, maxr, cand, FAS, k, graph, roots, ordered, built,
          path, archives, pending, datafile_list, overlapping_datafiles,
          suspicious_files, run, first_score, first_edges>>

\* The variables of the archive scan and of the second scoring run
scan == <<path, archives, pending, datafile_list, overlapping_datafiles,
          suspicious_files>>
rerun == <<run, first_score, first_edges>>

----------------------------------------------------------------------------
(* Sequences and functions *)

EmptyFun == [x \in {} |-> x]

\* The archive scan is over and left out: its variables are empty
ScanOver ==
    /\ path = [excluded_arc_dirs |-> {}, expected_exts |-> {}]
    /\ archives = EmptyFun
    /\ pending = <<>>
    /\ datafile_list = EmptyFun
    /\ overlapping_datafiles = EmptyFun
    /\ suspicious_files = EmptyFun

\* The scoring has not been run before
FirstRun ==
    /\ run = 1
    /\ first_score = EmptyFun
    /\ first_edges = {}

Range(s) == {s[i] : i \in DOMAIN s}

IndexOf(s, x) == CHOOSE i \in DOMAIN s : s[i] = x /\ \A j \in 1..(i-1) : s[j] # x

Front(s) == SubSeq(s, 1, Len(s) - 1)

Last(s) == s[Len(s)]

Restrict(f, S) == [x \in S |-> f[x]]

\* All the orders in which a set can be listed
RECURSIVE Perms(_)
Perms(S) ==
    IF S = {} THEN {<<>>}
    ELSE UNION {{<<x>> \o p : p \in Perms(S \ {x})} : x \in S}

----------------------------------------------------------------------------
(* Exact rationals <<num, den>>, den > 0, in lowest terms *)

RECURSIVE GCD(_, _)
GCD(a, b) == IF b = 0 THEN a ELSE GCD(b, a % b)

Rat(n, d) == LET g == GCD(n, d) IN IF g = 0 THEN <<0, 1>> ELSE <<n \div g, d \div g>>

RZero == <<0, 1>>
ROne == <<1, 1>>
RMul(x, y) == Rat(x[1] * y[1], x[2] * y[2])
RInv(x) == Rat(x[2], x[1])
RLess(x, y) == x[1] * y[2] < y[1] * x[2]

RECURSIVE RPow(_, _)
\* x ** n for an integer n
RPow(x, n) ==
    IF n = 0 THEN ROne
    ELSE IF n < 0 THEN RInv(RPow(x, -n))
    ELSE RMul(x, RPow(x, n - 1))

\* Python 2 round(x * 1000) for x >= 0: half away from zero
Round1000(x) == (2000 * x[1] + x[2]) \div (2 * x[2])

----------------------------------------------------------------------------
(* ModGraph: the graph primitives *)

\* A faulty add_edge, which enters the edge the wrong way round
add_edge_bug(E, e) == E \cup {<<e[2], e[1]>>}

add_edge(E, e) == E \cup {e}

del_edge(E, e) == E \ {e}

get_outgoing_nodes(E) == {e[2] : e \in E}

get_connected_nodes(E) == {e[1] : e \in E} \cup get_outgoing_nodes(E)

\* The nodes with outgoing edges but no incoming edge
get_roots(E) == {n \in {e[1] : e \in E} : n \notin get_outgoing_nodes(E)}

\* A faulty has_incoming_edge, which sees no incoming edge
has_incoming_edge_bug(E, mod) == FALSE

has_incoming_edge(E, mod) == \E e \in E : e[2] = mod

----------------------------------------------------------------------------
(* _FileProps and _ModEdge *)

\* A modification time is a number of seconds since 1970-01-01, what
\* time.mktime(time.strptime(...)) makes of the string.
SecondsPerDay == 86400

\* "2002-05-01 12:00:00", the first Morrowind release
StartSeconds == 1020254400

\* int(seconds / (3600 * 24)): int() truncates towards zero
str_to_time(t) ==
    IF t >= 0 THEN t \div SecondsPerDay ELSE -((-t) \div SecondsPerDay)

start_time == str_to_time(StartSeconds)

\* A faulty offset, without the test "t <= self.start_time"
day_offset_bug(t) == str_to_time(t) - start_time

\* The day-offset _FileProps.__init__ stores for one modification time
day_offset(t) ==
    IF str_to_time(t) <= start_time
    THEN start_time - 1
    ELSE str_to_time(t) - start_time

\* _FileProps(sizes, mtimes)
FileProps(sizes, mtimes) ==
    [sizes |-> sizes, mtimes |-> <<day_offset(mtimes[1]), day_offset(mtimes[2])>>]

max_amplitude == 10

\* A faulty maximum, which stores the reciprocal when the ratio does not
\* exceed it
RMax_bug(x, y) == IF RLess(x, y) THEN y ELSE RInv(y)

RMax(x, y) == IF RLess(x, y) THEN y ELSE x

\* _ModEdge.set_max_ratios, on the triple of class attributes
set_max_ratios(m, size, mtime, fc) ==
    <<RMax(m[1], size), RMax(m[2], mtime), RMax(m[3], fc)>>

\* x ** (1.0 / n) where the root is rational
NthRoot(x, n) ==
    CHOOSE r \in (1..x[1]) \X (1..x[2]) : RPow(r, n) = x

\* The product, over the files of an edge, of first over second for the
\* attribute attr ("sizes" or "mtimes") of their _FileProps
RECURSIVE ratio_product(_, _)
ratio_product(fp, attr) ==
    IF DOMAIN fp = {}
    THEN ROne
    ELSE LET f == CHOOSE f \in DOMAIN fp : TRUE
             p == fp[f][attr]
         IN RMul(Rat(p[1], p[2]), ratio_product(Restrict(fp, DOMAIN fp \ {f}), attr))

\* lines 189-217: the three raw ratios of the edge e
raw_ratios(e, df, fc) ==
    LET n == Cardinality(DOMAIN df[e])
    IN <<NthRoot(ratio_product(df[e], "sizes"), n),
         NthRoot(ratio_product(df[e], "mtimes"), n),
         Rat(fc[e[2]], fc[e[1]])>>

\* The class maxima after the first loop of set_edge_props (lines 187-221)
RECURSIVE max_after(_, _, _)
max_after(m, raw, todo) ==
    IF todo = {}
    THEN m
    ELSE LET e == CHOOSE e \in todo : TRUE
         IN max_after(set_max_ratios(m, raw[e][1], raw[e][2], raw[e][3]),
                      raw, todo \ {e})

\* _ModEdge.get_normalizing_powers divides by math.log(max): the exception it ends
\* with, "" when it returns.  math.log(0) is a ValueError, a division by
\* math.log(1.0) a ZeroDivisionError; the tuple is evaluated left to right.
RECURSIVE powers_error(_, _)
powers_error(m, i) ==
    IF i > Len(m) THEN ""
    ELSE IF m[i] = RZero THEN "ValueError"
    ELSE IF m[i] = ROne THEN "ZeroDivisionError"
    ELSE powers_error(m, i + 1)

\* r ** (log(max_amplitude) / log(m)), that is max_amplitude ** j for the j
\* with m ** j = r.  The inputs of the model keep j an integer.
Normalize(r, m) ==
    LET j == CHOOSE j \in -3..3 : RPow(m, j) = r
    IN RPow(<<max_amplitude, 1>>, j)

\* ModGraph.set_edge_props
set_edge_props ==
    /\ pc = "set_edge_props"
    /\ \E raw \in {[e \in mod_edges |-> raw_ratios(e, datafiles, file_count)]} :
       \E m \in {max_after(maxr, raw, mod_edges)} :
       \E failure \in {powers_error(m, 1)} :
          /\ maxr' = m
          /\ IF failure # ""
             THEN /\ norm' = raw
                  /\ pc' = "error"
                  /\ err' = failure
             ELSE /\ norm' = [e \in mod_edges |->
                                <<Normalize(raw[e][1], m[1]),
                                  Normalize(raw[e][2], m[2]),
                                  Normalize(raw[e][3], m[3])>>]
                  /\ pc' = "set_directions"
                  /\ err' = err
    /\ UNCHANGED <<scan, rerun, built, cfg, mod_list, free_mod, ordered_overlap_mod, mod_nodes,
                   file_count, install_index, mod_edges, datafiles, score,
                   val, removed, cand, FAS, k, graph, roots, ordered>>

----------------------------------------------------------------------------
(* ModConfig lookups and ModGraph.set_directions *)

\* ModConfig.is_greater: c.precedence holds <<x, y>> when the ini file
\* lists y among the mods x takes precedence over
is_greater(c, mod1, mod2) ==
    IF <<mod2, mod1>> \in c.precedence THEN -1
    ELSE IF <<mod1, mod2>> \in c.precedence THEN 1
    ELSE 0

\* ModConfig.get_mod_coeff
get_mod_coeff(c, mod) == c.coefficient[mod]

\* lines 240-252
final_score(c, e, nr) ==
    LET coeff == RMul(get_mod_coeff(c, e[1]), RInv(get_mod_coeff(c, e[2])))
    IN RMul(RMul(RMul(RPow(nr[e][1], c.size_coeff),
                      RPow(nr[e][2], c.mtime_coeff)),
                 RPow(nr[e][3], c.fc_coeff)),
            coeff)

\* A faulty test, without "and force != 1"
is_deleted_bug(c, e, nr) ==
    RLess(final_score(c, e, nr), ROne) \/ is_greater(c, e[1], e[2]) = -1

\* line 261: the test that deletes the edge
is_deleted(c, e, nr) ==
    LET force == is_greater(c, e[1], e[2])
    IN (RLess(final_score(c, e, nr), ROne) \/ force = -1) /\ force # 1

\* ModGraph.set_directions
set_directions ==
    /\ pc = "set_directions"
    /\ \E kept \in {{e \in mod_edges : ~is_deleted(cfg, e, norm)}} :
          /\ mod_edges' = kept
          /\ score' = [e \in kept |-> final_score(cfg, e, norm)]
          /\ norm' = Restrict(norm, kept)
          /\ datafiles' = Restrict(datafiles, kept)
    /\ pc' = "break_cycles"
    /\ UNCHANGED <<scan, rerun, built, err, cfg, mod_list, free_mod, ordered_overlap_mod, mod_nodes,
                   file_count, install_index,
                   val, removed, maxr, cand, FAS, k, graph, roots, ordered>>

----------------------------------------------------------------------------
(* ModGraph.break_cycles *)

\* get_cycle's depth-first search.  An outcome of traverse_graph is
\* [found, cycle, unvisited]: what it returns and the two lists it leaves.
\* for_neighbours is the loop "for n in self.mod_edges[cur_node]" with the
\* neighbours in todo still to come, taken in every order.
RECURSIVE traverse_graph(_, _, _)
RECURSIVE for_neighbours(_, _, _, _)
for_neighbours(cycle, unvisited, todo, E) ==
    IF todo = {}
    THEN {[found |-> FALSE, cycle |-> Front(cycle), unvisited |-> unvisited]}
    ELSE UNION {
        IF n \in Range(cycle)
        THEN {[found |-> TRUE,
               cycle |-> SubSeq(cycle, IndexOf(cycle, n), Len(cycle)),
               unvisited |-> unvisited]}
        ELSE IF n \in unvisited
        THEN UNION {IF o.found
                    THEN {o}
                    ELSE for_neighbours(cycle, o.unvisited, todo \ {n}, E)
                    : o \in traverse_graph(Append(cycle, n), unvisited \ {n}, E)}
        ELSE for_neighbours(cycle, unvisited, todo \ {n}, E)
        : n \in todo}

traverse_graph(cycle, unvisited, E) ==
    for_neighbours(cycle, unvisited, {n \in Mods : <<Last(cycle), n>> \in E}, E)

\* The loop "while len(unvisited) > 0" of get_cycle: every start node
\* unvisited.pop() may return.  <<>> stands for None.
RECURSIVE get_cycle_loop(_, _)
get_cycle_loop(unvisited, E) ==
    IF unvisited = {}
    THEN {<<>>}
    ELSE UNION {UNION {IF o.found THEN {o.cycle} ELSE get_cycle_loop(o.unvisited, E)
                       : o \in traverse_graph(<<s>>, unvisited \ {s}, E)}
                : s \in unvisited}

\* The set of the lists get_cycle may return on the graph (nodes, E)
get_cycle(nodes, E) == get_cycle_loop(nodes, E)

\* The edges get_min_edge_value and remove_min_edges walk over:
\* cycle[i] -> cycle[i + 1] for i in range(len(cycle) - 1)
walked_edges(cycle) == [i \in 1..(Len(cycle) - 1) |-> <<cycle[i], cycle[i + 1]>>]

RECURSIVE min_edge_loop(_, _, _, _)
min_edge_loop(edges, v, i, minval) ==
    IF i > Len(edges)
    THEN minval
    ELSE LET e == v[edges[i]]
         IN min_edge_loop(edges, v, i + 1,
                          IF e < minval \/ minval = -1 THEN e ELSE minval)

get_min_edge_value(cycle, v) == min_edge_loop(walked_edges(cycle), v, 1, -1)

\* remove_min_edges: the weights after the subtraction
lowered(cycle, v, minval) ==
    [e \in DOMAIN v |-> IF e \in Range(walked_edges(cycle)) THEN v[e] - minval ELSE v[e]]

\* A faulty remove_min_edges, which takes an edge only when its weight fell
\* below 0
exhausted_bug(cycle, v, minval) ==
    LET IsBelow(e) == lowered(cycle, v, minval)[e] < 0
    IN SelectSeq(walked_edges(cycle), IsBelow)

\* remove_min_edges: the list it returns, the edges whose weight reached 0
exhausted(cycle, v, minval) ==
    LET IsZero(e) == lowered(cycle, v, minval)[e] = 0
    IN SelectSeq(walked_edges(cycle), IsZero)

\* Two faulty tests for Pass 2: one puts every candidate back, the other none
recreates_cycle_never(nodes, E) == FALSE

recreates_cycle_always(nodes, E) == TRUE

\* Pass 2: "get_cycle() is not None" after the candidate is put back
recreates_cycle(nodes, E) == \E c \in get_cycle(nodes, E) : c # <<>>

\* lines 330-335: the weights, and the empty candidate list
break_cycles_begin ==
    /\ pc = "break_cycles"
    /\ val' = [e \in mod_edges |-> Round1000(score[e])]
    /\ cand' = <<>>
    /\ pc' = "pass1"
    /\ UNCHANGED <<scan, rerun, built, err, cfg, mod_list, free_mod, ordered_overlap_mod, mod_nodes,
                   file_count, install_index, mod_edges, datafiles, norm, score,
                   removed, maxr, FAS, k, graph, roots, ordered>>

\* lines 336-340, one iteration of the while loop
pass1_step ==
    /\ pc = "pass1"
    /\ \E cycle \in get_cycle(mod_nodes, mod_edges) :
          /\ cycle # <<>>
          /\ LET minval == get_min_edge_value(cycle, val)
                 dead == exhausted(cycle, val, minval)
             IN /\ val' = lowered(cycle, val, minval)
                /\ mod_edges' = mod_edges \ Range(dead)
                /\ cand' = cand \o dead
    /\ UNCHANGED <<scan, rerun, built, pc, err, cfg, mod_list, free_mod, ordered_overlap_mod, mod_nodes,
                   file_count, install_index, datafiles, norm, score,
                   removed, maxr, FAS, k, graph, roots, ordered>>

\* lines 337 and 342: the while loop ends, self.FAS = []
pass1_exit ==
    /\ pc = "pass1"
    /\ <<>> \in get_cycle(mod_nodes, mod_edges)
    /\ FAS' = <<>>
    /\ k' = 1
    /\ pc' = "pass2"
    /\ UNCHANGED <<scan, rerun, built, err, cfg, mod_list, free_mod, ordered_overlap_mod, mod_nodes,
                   file_count, install_index, mod_edges, datafiles, norm, score,
                   val, removed, maxr, cand, graph, roots, ordered>>

\* lines 343-348, one iteration of the for loop
pass2_step ==
    /\ pc = "pass2"
    /\ k <= Len(cand)
    /\ LET edge == cand[k]
           put_back == add_edge(mod_edges, edge)
       IN IF recreates_cycle(mod_nodes, put_back)
          THEN /\ mod_edges' = del_edge(put_back, edge)
               /\ removed' = removed \cup {edge}
               /\ FAS' = Append(FAS, edge)
          ELSE /\ mod_edges' = put_back
               /\ UNCHANGED <<removed, FAS>>
    /\ k' = k + 1
    /\ UNCHANGED <<scan, rerun, built, pc, err, cfg, mod_list, free_mod, ordered_overlap_mod, mod_nodes,
                   file_count, install_index, datafiles, norm, score,
                   val, maxr, cand, graph, roots, ordered>>

\* lines 343 and 350-352: the for loop ends and break_cycles returns
pass2_exit ==
    /\ pc = "pass2"
    /\ k > Len(cand)
    /\ pc' = "broken"
    /\ UNCHANGED <<scan, rerun, built, err, cfg, mod_list, free_mod, ordered_overlap_mod, mod_nodes,
                   file_count, install_index, mod_edges, datafiles, norm, score,
                   val, removed, maxr, cand, FAS, k, graph, roots, ordered>>

----------------------------------------------------------------------------
(* ModGraph.tsort_graph, ModGraph.restore_cycles, ModAnalysis.set_free_mod *)

\* A faulty key, of the opposite sign
sort_key_bug(mod, fc) == fc[mod]

\* The key of sorted() at lines 365-366
sort_key(mod, fc) == -fc[mod]

\* s with x put after the last element whose key is not above x's
insert_sorted(s, x, fc) ==
    LET p == Cardinality({i \in DOMAIN s : sort_key(s[i], fc) <= sort_key(x, fc)})
    IN SubSeq(s, 1, p) \o <<x>> \o SubSeq(s, p + 1, Len(s))

RECURSIVE sorted_from(_, _, _, _)
sorted_from(s, i, acc, fc) ==
    IF i > Len(s) THEN acc ELSE sorted_from(s, i + 1, insert_sorted(acc, s[i], fc), fc)

\* sorted(roots, key=...): ascending in the key, and stable
sorted_roots(s, fc) == sorted_from(s, 1, <<>>, fc)

\* lines 371-374: the loop over the targets of mod1 still in todo, in every
\* order; an outcome is <<graph, roots>>
RECURSIVE del_outgoing(_, _, _, _)
del_outgoing(G, R, mod1, todo) ==
    IF todo = {}
    THEN {<<G, R>>}
    ELSE UNION {LET G1 == del_edge(G, <<mod1, mod2>>)
                IN del_outgoing(G1,
                                IF ~has_incoming_edge(G1, mod2) THEN Append(R, mod2) ELSE R,
                                mod1, todo \ {mod2})
                : mod2 \in todo}

\* A faulty reverse(), which leaves the list as it is
reverse_bug(s) == s

\* list.reverse()
reverse(s) == [i \in 1..Len(s) |-> s[Len(s) + 1 - i]]

\* A faulty test, which never sees an edge left
cycle_left_bug(G) == FALSE

\* line 375: len(graph.mod_edges) > 0
cycle_left(G) == G # {}

\* lines 357-359: tsort_graph, called on a graph of its own or on the one
\* break_cycles has left
tsort_graph_begin ==
    /\ pc \in {"tsort_graph", "broken"}
    /\ ordered' = <<>>
    /\ graph' = mod_edges
    /\ roots' \in Perms(get_roots(mod_edges))
    /\ pc' = "tsort_loop"
    /\ UNCHANGED <<scan, rerun, built, err, cfg, mod_list, free_mod, ordered_overlap_mod, mod_nodes,
                   file_count, install_index, mod_edges, datafiles, norm, score,
                   val, removed, maxr, cand, FAS, k>>

\* lines 361-374, one iteration of the while loop
tsort_graph_step ==
    /\ pc = "tsort_loop"
    /\ roots # <<>>
    /\ LET srt == sorted_roots(roots, file_count)
           mod1 == Last(srt)
       IN /\ ordered' = Append(ordered, mod1)
          /\ \E o \in del_outgoing(graph, Front(srt), mod1,
                                   {m \in Mods : <<mod1, m>> \in graph}) :
                /\ graph' = o[1]
                /\ roots' = o[2]
    /\ UNCHANGED <<scan, rerun, built, pc, err, cfg, mod_list, free_mod, ordered_overlap_mod, mod_nodes,
                   file_count, install_index, mod_edges, datafiles, norm, score,
                   val, removed, maxr, cand, FAS, k>>

\* lines 375-380: the loop ended with edges left in the working copy
tsort_graph_raise ==
    /\ pc = "tsort_loop"
    /\ roots = <<>>
    /\ cycle_left(graph)
    /\ pc' = "error"
    /\ err' = "ModGraphError"
    /\ UNCHANGED <<scan, rerun, built, cfg, mod_list, free_mod, ordered_overlap_mod, mod_nodes,
                   file_count, install_index, mod_edges, datafiles, norm, score,
                   val, removed, maxr, cand, FAS, k, graph, roots, ordered>>

\* lines 382-385 and bio.py:359: the order is reversed, indexed and returned
tsort_graph_return ==
    /\ pc = "tsort_loop"
    /\ roots = <<>>
    /\ ~cycle_left(graph)
    /\ LET rev == reverse(ordered)
           last_at(m) == CHOOSE i \in DOMAIN rev :
                            rev[i] = m /\ \A j \in DOMAIN rev : rev[j] = m => j <= i
       IN /\ ordered' = rev
          /\ install_index' = [m \in (DOMAIN install_index) \cup Range(rev) |->
                                 IF m \in Range(rev) THEN last_at(m) - 1
                                 ELSE install_index[m]]
          /\ ordered_overlap_mod' = rev
    /\ pc' = "sorted"
    /\ UNCHANGED <<scan, rerun, built, err, cfg, mod_list, free_mod, mod_nodes,
                   file_count, mod_edges, datafiles, norm, score,
                   val, removed, maxr, cand, FAS, k, graph, roots>>

\* The loop of restore_cycles over the edges of F from the i-th on
RECURSIVE add_edges(_, _, _)
add_edges(E, F, i) ==
    IF i > Len(F) THEN E ELSE add_edges(add_edge(E, F[i]), F, i + 1)

\* lines 387-389: restore_cycles, called on the graph break_cycles left; in
\* between tsort_graph sorts a copy and leaves mod_edges and FAS alone
restore_cycles ==
    /\ pc \in {"sorted", "broken"}
    /\ mod_edges' = add_edges(mod_edges, FAS, 1)
    /\ pc' = "restored"
    /\ UNCHANGED <<scan, rerun, built, err, cfg, mod_list, free_mod, ordered_overlap_mod, mod_nodes,
                   file_count, install_index, datafiles, norm, score,
                   val, removed, maxr, cand, FAS, k, graph, roots, ordered>>

\* bio.py:180-182: the archives of ml that are not in the ordered list oom
not_ordered(ml, oom) ==
    LET NotOrdered(m) == m \notin Range(oom)
    IN SelectSeq(ml, NotOrdered)

\* bio.py:179-182
set_free_mod ==
    /\ pc = "restored"
    /\ free_mod' = not_ordered(mod_list, ordered_overlap_mod)
    /\ pc' = "free_set"
    /\ UNCHANGED <<scan, rerun, built, err, cfg, mod_list, ordered_overlap_mod, mod_nodes,
                   file_count, install_index, mod_edges, datafiles, norm, score,
                   val, removed, maxr, cand, FAS, k, graph, roots, ordered>>

----------------------------------------------------------------------------
(* break_cycles on every weighted graph set_directions can leave *)

\* The configuration of mod_config.py when the ini file names no coefficient
\* and forces the precedences P
DefaultCfg(P) ==
    [size_coeff |-> 1, mtime_coeff |-> 1, fc_coeff |-> 1,
     coefficient |-> [m \in Mods |-> ROne], precedence |-> P]

\* Scores of the edges handed to break_cycles
ScoreVals == {<<3, 10>>, <<2, 5>>, <<1, 2>>, <<1, 1>>}

\* set_directions keeps an edge whose score is below 1 only when it is
\* forced, and keeps both directions of a pair only when neither is below 1,
\* which for reciprocal scores means both are 1.
LeftBySetDirections(E, sc) ==
    \A e \in E : <<e[2], e[1]>> \in E => sc[e] = ROne

InitBC ==
    \E E \in SUBSET Pairs :
      /\ Cardinality(E) <= MaxEdges
      /\ \E sc \in [E -> ScoreVals] :
           /\ LeftBySetDirections(E, sc)
           /\ \E iso \in SUBSET (Mods \ get_connected_nodes(E)) :
                /\ mod_nodes = get_connected_nodes(E) \cup iso
                /\ mod_edges = E
                /\ built = E
                /\ score = sc
                /\ cfg = DefaultCfg({e \in E : RLess(sc[e], ROne)})
      /\ pc = "break_cycles"
      /\ err = ""
      /\ mod_list = SubSeq(ModNames, 1, NumMods)
      /\ free_mod = <<>>
      /\ ordered_overlap_mod = <<>>
      /\ file_count = [m \in Mods |-> 1]
      /\ install_index = EmptyFun
      /\ datafiles = EmptyFun
      /\ norm = EmptyFun
      /\ val = EmptyFun
      /\ removed = {}
      /\ maxr = <<RZero, RZero, RZero>>
      /\ cand = <<>>
      /\ FAS = <<>>
      /\ k = 0
      /\ graph = {}
      /\ roots = <<>>
      /\ ordered = <<>>
      /\ ScanOver
      /\ FirstRun

NextBC ==
    \/ break_cycles_begin
    \/ pass1_step
    \/ pass1_exit
    \/ pass2_step
    \/ pass2_exit

SpecBC == InitBC /\ [][NextBC]_vars

\* A directed cycle, by reachability (independent of get_cycle)
RECURSIVE ReachFrom(_, _)
ReachFrom(S, E) ==
    LET T == S \cup {e[2] : e \in {x \in E : x[1] \in S}}
    IN IF T = S THEN S ELSE ReachFrom(T, E)

HasCycle(E) == \E e \in E : e[1] \in ReachFrom({e[2]}, E)

\* The edges the graph had when break_cycles was called
EdgesAtEntry == DOMAIN score

\* C1: once break_cycles has returned, the graph held in mod_edges has no
\* directed cycle, whatever the edge set, the weights and the order of the
\* depth-first search were.
C1_Acyclic == pc = "broken" => ~HasCycle(mod_edges)

\* C1 witness: break_cycles returned on a graph that had a cycle and whose
\* Pass 2 put a candidate back.
C1_Witness ==
    /\ pc = "broken"
    /\ HasCycle(EdgesAtEntry)
    /\ Len(FAS) < Len(cand)

\* C6: once break_cycles has returned, every edge of self.FAS, put back
\* alone into the surviving graph, closes a directed cycle.
C6_Minimal ==
    pc = "broken" => \A e \in Range(FAS) : HasCycle(mod_edges \cup {e})

\* C6 witness: break_cycles returned with a permanently removed edge after
\* Pass 2 had put another candidate back.
C6_Witness ==
    /\ pc = "broken"
    /\ Len(FAS) >= 1
    /\ Len(cand) > Len(FAS)

\* Every edge of the cycle the node list c stands for, the edge from its
\* last node back to its first included
cycle_edges(c) == Range(walked_edges(c)) \cup {<<Last(c), c[1]>>}

\* The smallest weight of the edges of D
min_val(D, v) == CHOOSE m \in {v[e] : e \in D} : \A e \in D : m <= v[e]

\* C17: an iteration of Pass 1 subtracts from every edge of the located
\* cycle, the closing edge included, the smallest weight of all of them, so
\* every edge it deletes has that smallest weight.
C17_MinOverCycle ==
    [][(pc = "pass1" /\ pc' = "pass1") =>
          \E c \in get_cycle(mod_nodes, mod_edges) \ {<<>>} :
              LET m == min_val(cycle_edges(c), val)
              IN /\ val' = [e \in DOMAIN val |->
                              IF e \in cycle_edges(c) THEN val[e] - m ELSE val[e]]
                 /\ mod_edges \ mod_edges' \subseteq cycle_edges(c)
                 /\ \A e \in mod_edges \ mod_edges' : val[e] = m]_vars

\* C18: every iteration of Pass 1 deletes at least one edge and records what
\* it deletes, so that the iterations are no more than the edges break_cycles
\* was given, and Pass 1 is left only with a graph without a cycle.
C18_Pass1Ends ==
    [][pc = "pass1" =>
          /\ pc' = "pass1" =>
                /\ mod_edges' \subseteq mod_edges
                /\ mod_edges' # mod_edges
                /\ Len(cand') > Len(cand)
          /\ Len(cand') + Cardinality(mod_edges') = Cardinality(EdgesAtEntry)
          /\ pc' = "pass2" => ~HasCycle(mod_edges)]_vars

\* C18 witness: Pass 1 is over after an iteration on a cycle of three edges,
\* of which it deleted one.
C18_Witness ==
    /\ pc = "pass2"
    /\ k = 1
    /\ Len(cand) = 1
    /\ Cardinality(mod_edges) = 2
    /\ HasCycle(mod_edges \cup {cand[1]})
    /\ ~HasCycle(mod_edges)

\* break_cycles followed by restore_cycles on the same graph
NextCycles ==
    \/ break_cycles_begin
    \/ pass1_step
    \/ pass1_exit
    \/ pass2_step
    \/ pass2_exit
    \/ restore_cycles

SpecCycles == InitBC /\ [][NextCycles]_vars

\* C20: once break_cycles has returned, the surviving edges and self.FAS
\* are disjoint and together are the edges the graph had before; once
\* restore_cycles has returned, the graph has those edges again; and an edge
\* is flagged removed exactly when it is in self.FAS.
C20_NoEdgeLost ==
    /\ pc = "broken" =>
          /\ mod_edges \cap Range(FAS) = {}
          /\ mod_edges \cup Range(FAS) = EdgesAtEntry
    /\ pc = "restored" => mod_edges = EdgesAtEntry
    /\ pc \in {"broken", "restored"} => removed = Range(FAS)

\* C20 witness: restore_cycles has returned after a break_cycles whose
\* Pass 2 put one candidate back and kept another out.
C20_Witness ==
    /\ pc = "restored"
    /\ Len(FAS) >= 1
    /\ Len(cand) > Len(FAS)
    /\ removed # {}

\* break_cycles followed by tsort_graph on the graph it leaves, which has no
\* cycle (C1), so that tsort_graph returns
NextSort ==
    \/ break_cycles_begin
    \/ pass1_step
    \/ pass1_exit
    \/ pass2_step
    \/ pass2_exit
    \/ tsort_graph_begin
    \/ tsort_graph_step
    \/ tsort_graph_return

SpecSort == InitBC /\ [][NextSort]_vars

\* C21: every archive that was an endpoint of an edge when break_cycles was
\* called is an endpoint of an edge break_cycles leaves, is in the list
\* tsort_graph returns, and is not among the archives set_free_mod takes
\* as free.
C21_NeverIsolated ==
    /\ pc = "broken" =>
          get_connected_nodes(EdgesAtEntry) \subseteq get_connected_nodes(mod_edges)
    /\ pc = "sorted" =>
          /\ get_connected_nodes(EdgesAtEntry) \subseteq Range(ordered_overlap_mod)
          /\ Range(not_ordered(mod_list, ordered_overlap_mod))
                \cap get_connected_nodes(EdgesAtEntry) = {}

\* C21 witness: tsort_graph returned all three archives after break_cycles
\* had kept an edge out of the graph.
C21_Witness ==
    /\ pc = "sorted"
    /\ FAS # <<>>
    /\ get_connected_nodes(EdgesAtEntry) = Mods
    /\ Len(ordered_overlap_mod) = NumMods

\* The cycle scenario: exactly A->B (0.5), B->C (0.3), C->A (0.4)
CycleScenario ==
    /\ DOMAIN score = {<<"A", "B">>, <<"B", "C">>, <<"C", "A">>}
    /\ score[<<"A", "B">>] = <<1, 2>>
    /\ score[<<"B", "C">>] = <<3, 10>>
    /\ score[<<"C", "A">>] = <<2, 5>>

\* C7: on the cycle scenario break_cycles deletes B->C in Pass 1, leaves
\* A->B and C->A, and ends with B->C as the only permanently removed edge.
C7_CycleScenario ==
    (pc = "broken" /\ CycleScenario) =>
        /\ cand = << <<"B", "C">> >>
        /\ mod_edges = {<<"A", "B">>, <<"C", "A">>}
        /\ FAS = << <<"B", "C">> >>
        /\ removed = {<<"B", "C">>}

----------------------------------------------------------------------------
(* tsort_graph, restore_cycles and set_free_mod on every graph *)

FileCounts == {1, 2, 4}

\* What break_cycles leaves: an acyclic graph E and the removed edges F, each
\* of which closes a cycle when put back (C1, C6).  With F empty the graph
\* is any graph, also one with cycles, which break_cycles never leaves: the
\* call the error branch of tsort_graph is written for.
LeftByBreakCycles(E, F) ==
    F = {} \/ (~HasCycle(E) /\ \A f \in F : HasCycle(E \cup {f}))

InitTsort ==
    \E E0 \in SUBSET Pairs :
      /\ Cardinality(E0) <= MaxEdges
      /\ \E F \in SUBSET E0 :
           /\ LeftByBreakCycles(E0 \ F, F)
           /\ mod_edges = E0 \ F
           /\ removed = F
           /\ FAS \in Perms(F)
           /\ cand = FAS
      /\ mod_nodes = get_connected_nodes(E0)
      /\ built = E0
      /\ score = [e \in E0 |-> ROne]
      /\ file_count \in [Mods -> FileCounts]
      /\ pc = "tsort_graph"
      /\ err = ""
      /\ cfg = DefaultCfg({})
      /\ mod_list = SubSeq(ModNames, 1, NumMods)
      /\ free_mod = <<>>
      /\ ordered_overlap_mod = <<>>
      /\ install_index = EmptyFun
      /\ datafiles = EmptyFun
      /\ norm = EmptyFun
      /\ val = EmptyFun
      /\ maxr = <<RZero, RZero, RZero>>
      /\ k = 0
      /\ graph = {}
      /\ roots = <<>>
      /\ ordered = <<>>
      /\ ScanOver
      /\ FirstRun

NextTsort ==
    \/ tsort_graph_begin
    \/ tsort_graph_step
    \/ tsort_graph_raise
    \/ tsort_graph_return
    \/ restore_cycles
    \/ set_free_mod

SpecTsort == InitTsort /\ [][NextTsort]_vars

\* C2: when tsort_graph has returned, every edge A->B of mod_edges has
\* install_index(A) > install_index(B).
C2_OrderValid ==
    pc = "sorted" =>
        \A e \in mod_edges :
            /\ e[1] \in DOMAIN install_index
            /\ e[2] \in DOMAIN install_index
            /\ install_index[e[1]] > install_index[e[2]]

\* C2 witness: tsort_graph returned on a graph of two or more edges from
\* which break_cycles had removed an edge.
C2_Witness ==
    /\ pc = "sorted"
    /\ Cardinality(mod_edges) >= 2
    /\ FAS # <<>>

\* The edges that are not flagged removed
Surviving == mod_edges \ removed

\* C5: after tsort_graph and set_free_mod every endpoint of a surviving edge
\* is once in the ordered list and has its position as install_index, the
\* indices are exactly 0..n-1, every other archive of mod_list is in
\* free_mod with no install_index, and no archive is in both lists.
C5_Totality ==
    pc = "free_set" =>
        LET n == Len(ordered_overlap_mod)
            inGraph == get_connected_nodes(Surviving)
        IN /\ \A m \in inGraph :
                 /\ Cardinality({i \in 1..n : ordered_overlap_mod[i] = m}) = 1
                 /\ m \in DOMAIN install_index
           /\ \A i \in 1..n : install_index[ordered_overlap_mod[i]] = i - 1
           /\ Cardinality(DOMAIN install_index) = n
           /\ {install_index[m] : m \in DOMAIN install_index} = 0..(n - 1)
           /\ \A m \in Range(mod_list) \ inGraph :
                 /\ m \in Range(free_mod)
                 /\ m \notin DOMAIN install_index
           /\ Range(free_mod) \cap Range(ordered_overlap_mod) = {}

\* C5 witness: set_free_mod ran with ordered archives, a free archive and a
\* removed edge put back by restore_cycles.
C5_Witness ==
    /\ pc = "free_set"
    /\ Len(ordered_overlap_mod) >= 2
    /\ free_mod # <<>>
    /\ removed # {}

\* C9: tsort_graph called on a graph with a directed cycle raises
\* ModGraphError, returns no order and sets no install_index; it returns
\* only with the working copy empty.
C9_CycleRaises ==
    /\ (pc \in {"sorted", "error"} /\ HasCycle(mod_edges)) =>
           /\ pc = "error"
           /\ err = "ModGraphError"
           /\ DOMAIN install_index = {}
           /\ ordered_overlap_mod = <<>>
    /\ pc = "sorted" => graph = {}

\* C9 witness: tsort_graph raised on a graph with a cycle after it had
\* popped a root.
C9_Witness ==
    /\ pc = "error"
    /\ err = "ModGraphError"
    /\ HasCycle(mod_edges)
    /\ ordered # <<>>

\* The tie-break scenario: A->B and C->B, file counts A=2, B=4, C=1
TieScenario ==
    /\ mod_edges = {<<"A", "B">>, <<"C", "B">>}
    /\ file_count["A"] = 2
    /\ file_count["B"] = 4
    /\ file_count["C"] = 1

\* C10: every root tsort_graph selects has the least file_count of the
\* roots available at that moment, and on the tie-break scenario the
\* returned order is [B, A, C].
C10_TieBreak ==
    [][/\ (pc = "tsort_loop" /\ pc' = "tsort_loop") =>
             /\ Last(ordered') \in Range(roots)
             /\ \A r \in Range(roots) : file_count[Last(ordered')] <= file_count[r]
       /\ (pc' = "sorted" /\ TieScenario') => ordered_overlap_mod' = <<"B", "A", "C">>
      ]_vars

\* C10 witness: tsort_graph returned [B, A, C] on the tie-break scenario,
\* where A and C are roots together.
C10_Witness ==
    /\ pc = "sorted"
    /\ TieScenario
    /\ ordered_overlap_mod = <<"B", "A", "C">>

----------------------------------------------------------------------------
(* Scoring and direction resolution on the graph mod_analysis has built *)

\* Sizes in bytes and modification times of the versions of a shared file:
\* one and two days after the release
FileSizes == {1, 2}
FileTimes == {StartSeconds + SecondsPerDay, StartSeconds + 2 * SecondsPerDay}
Versions == [size : FileSizes, mtime : FileTimes]
RunFileCounts == {1, 2}
Exponents == {0, 1}

\* overlapping_datafiles_to_graph (bio.py:151-170) for one file "f" of which
\* each archive of owners holds its own version ver: the edges it adds
graph_of(owners) == {e \in Pairs : e[1] \in owners /\ e[2] \in owners}

\* and the _FileProps it attaches to the edge e
props_of(e, ver) ==
    [f \in {"f"} |-> FileProps(<<ver[e[1]].size, ver[e[2]].size>>,
                               <<ver[e[1]].mtime, ver[e[2]].mtime>>)]

\* The state in which mod_analysis calls set_edge_props (bio.py:355)
InitScore ==
    \E owners \in SUBSET Mods :
      /\ Cardinality(owners) >= 2
      /\ \E ver \in [owners -> Versions] :
           /\ mod_edges = graph_of(owners)
           /\ datafiles = [e \in graph_of(owners) |-> props_of(e, ver)]
      /\ built = graph_of(owners)
      /\ mod_nodes = owners
      /\ file_count \in [Mods -> RunFileCounts]
      /\ \E sc \in Exponents, mc \in Exponents, fc \in Exponents :
         \E P \in SUBSET Pairs :
           /\ Cardinality(P) <= MaxForced
           /\ cfg = [size_coeff |-> sc, mtime_coeff |-> mc, fc_coeff |-> fc,
                     coefficient |-> [m \in Mods |-> ROne], precedence |-> P]
      /\ pc = "set_edge_props"
      /\ err = ""
      /\ mod_list = SubSeq(ModNames, 1, NumMods)
      /\ free_mod = <<>>
      /\ ordered_overlap_mod = <<>>
      /\ install_index = EmptyFun
      /\ norm = EmptyFun
      /\ score = EmptyFun
      /\ val = EmptyFun
      /\ removed = {}
      /\ maxr = <<RZero, RZero, RZero>>
      /\ cand = <<>>
      /\ FAS = <<>>
      /\ k = 0
      /\ graph = {}
      /\ roots = <<>>
      /\ ordered = <<>>
      /\ ScanOver
      /\ FirstRun

NextScore ==
    \/ set_edge_props
    \/ set_directions

SpecScore == InitScore /\ [][NextScore]_vars

----------------------------------------------------------------------------
(* Scoring and direction resolution run twice on the same overlap data *)

\* Number of archives that hold a version of the shared file
NumScored == 2

Scored == {ModNames[i] : i \in 1..NumScored}

\* The versions of a file, one hash per archive: hash -> (mod, size, mtime)
versions_of(ver) ==
    [h \in {<<"crc", m>> : m \in DOMAIN ver} |->
        <<h[2], ver[h[2]].size, ver[h[2]].mtime>>]

\* overlapping_datafiles_to_graph: the edges it adds for the index od
edges_of(od) ==
    {e \in Pairs : \E f \in DOMAIN od : \E v1, v2 \in DOMAIN od[f] :
                      od[f][v1][1] = e[1] /\ od[f][v2][1] = e[2]}

\* overlapping_datafiles_to_graph: the datafiles of the edge e, a _FileProps
\* for every file of which e[1] and e[2] each own a version
datafiles_of(od, e) ==
    LET owns(f, m) == \E v \in DOMAIN od[f] : od[f][v][1] = m
        of(f, m) == od[f][CHOOSE v \in DOMAIN od[f] : od[f][v][1] = m]
    IN [f \in {g \in DOMAIN od : owns(g, e[1]) /\ owns(g, e[2])} |->
          FileProps(<<of(f, e[1])[2], of(f, e[2])[2]>>,
                    <<of(f, e[1])[3], of(f, e[2])[3]>>)]

\* The state in which set_edge_props is called for the first time
InitTwice ==
    /\ \E ver \in [Scored -> Versions] :
          overlapping_datafiles = [f \in {"f"} |-> versions_of(ver)]
    /\ mod_edges = edges_of(overlapping_datafiles)
    /\ datafiles = [e \in mod_edges |-> datafiles_of(overlapping_datafiles, e)]
    /\ built = mod_edges
    /\ mod_nodes = get_connected_nodes(mod_edges)
    /\ \E fcs \in [Scored -> RunFileCounts] :
          file_count = [m \in Mods |-> IF m \in Scored THEN fcs[m] ELSE 1]
    /\ \E sc \in Exponents, mc \in Exponents, fc \in Exponents :
       \E P \in SUBSET (Pairs \cap (Scored \X Scored)) :
         /\ Cardinality(P) <= MaxForced
         /\ cfg = [size_coeff |-> sc, mtime_coeff |-> mc, fc_coeff |-> fc,
                   coefficient |-> [m \in Mods |-> ROne], precedence |-> P]
    /\ pc = "set_edge_props"
    /\ err = ""
    /\ mod_list = SubSeq(ModNames, 1, NumMods)
    /\ free_mod = <<>>
    /\ ordered_overlap_mod = <<>>
    /\ install_index = EmptyFun
    /\ norm = EmptyFun
    /\ score = EmptyFun
    /\ val = EmptyFun
    /\ removed = {}
    /\ maxr = <<RZero, RZero, RZero>>
    /\ cand = <<>>
    /\ FAS = <<>>
    /\ k = 0
    /\ graph = {}
    /\ roots = <<>>
    /\ ordered = <<>>
    /\ path = [excluded_arc_dirs |-> {}, expected_exts |-> {}]
    /\ archives = EmptyFun
    /\ pending = <<>>
    /\ datafile_list = overlapping_datafiles
    /\ suspicious_files = EmptyFun
    /\ FirstRun

\* A new ModGraph is built from the same overlapping_datafiles and scored
\* again: the edges are new _ModEdge objects, the maxima are attributes of
\* the class _ModEdge and stay what the first run left
rebuild ==
    /\ pc = "break_cycles"
    /\ run = 1
    /\ run' = 2
    /\ first_score' = score
    /\ first_edges' = mod_edges
    /\ mod_edges' = edges_of(overlapping_datafiles)
    /\ datafiles' = [e \in edges_of(overlapping_datafiles) |->
                        datafiles_of(overlapping_datafiles, e)]
    /\ mod_nodes' = get_connected_nodes(edges_of(overlapping_datafiles))
    /\ norm' = EmptyFun
    /\ score' = EmptyFun
    /\ pc' = "set_edge_props"
    /\ UNCHANGED <<scan, built, err, cfg, mod_list, free_mod, ordered_overlap_mod,
                   file_count, install_index, val, removed, maxr, cand, FAS, k,
                   graph, roots, ordered>>

NextTwice ==
    \/ set_edge_props
    \/ set_directions
    \/ rebuild

SpecTwice == InitTwice /\ [][NextTwice]_vars

\* C11: the second run of set_edge_props and set_directions on a graph
\* rebuilt from the same overlap data completes with the scores and the
\* surviving edges of the first run.
C11_Idempotent ==
    run = 2 =>
        /\ pc # "error"
        /\ pc = "break_cycles" => (score = first_score /\ mod_edges = first_edges)

\* C11 witness: the second run has finished after a first run that deleted
\* an edge and left maxima other than the initial ones.
C11_Witness ==
    /\ run = 2
    /\ pc = "break_cycles"
    /\ first_edges # built
    /\ first_edges # {}
    /\ maxr # <<RZero, RZero, RZero>>

\* C19: set_directions deletes the edge A->B exactly when the forced
\* verdict for (A, B) is -1, or is 0 with score(A->B) < 1; an edge it keeps
\* gets its score stored.
C19_DeleteRule ==
    [][pc = "set_directions" =>
         \A e \in mod_edges :
            LET verdict == is_greater(cfg, e[1], e[2])
                s == final_score(cfg, e, norm)
            IN /\ (e \notin mod_edges') <=>
                      (verdict = -1 \/ (verdict = 0 /\ RLess(s, ROne)))
               /\ e \in mod_edges' => (e \in DOMAIN score' /\ score'[e] = s)
      ]_vars

\* C19 witness: set_directions has kept an edge that is forced and scores
\* below 1, and has deleted the opposite edge.
C19_Witness ==
    /\ pc = "break_cycles"
    /\ \E e \in mod_edges :
          /\ is_greater(cfg, e[1], e[2]) = 1
          /\ RLess(score[e], ROne)
          /\ <<e[2], e[1]>> \in built \ mod_edges

----------------------------------------------------------------------------
(* The archive scan: traverse_archives, process_archive, add_file,          *)
(* set_overlapping_datafiles and overlapping_datafiles_to_graph             *)

\* File names, as (first directory, base name, extension)
NameF == [dir |-> "meshes", base |-> "f", ext |-> "nif"]
NameG == [dir |-> "docs", base |-> "g", ext |-> "txt"]
Names == {NameF, NameG}

\* Modification times: before, at and after the first release
Before == StartSeconds - 3 * SecondsPerDay
After1 == StartSeconds + SecondsPerDay
After2 == StartSeconds + 2 * SecondsPerDay

\* One entry of an archive listing: Path, Size, Modified, CRC
Entry(n, sz, t, h) == [name |-> n, size |-> sz, mtime |-> t, hash |-> h]

\* What an archive may list for each name: nothing, or one entry
ListingsF ==
    {<<>>,
     <<Entry(NameF, 1, StartSeconds, "h1")>>,
     <<Entry(NameF, 2, After1, "h1")>>,
     <<Entry(NameF, 2, After2, "h2")>>,
     <<Entry(NameF, 0, After1, "h2")>>}

ListingsG ==
    {<<>>,
     <<Entry(NameG, 1, Before, "h1")>>,
     <<Entry(NameG, 1, After1, "h2")>>}

Listings == {lf \o lg : lf \in ListingsF, lg \in ListingsG}

\* versions with the entry e of the archive mod put under its hash
with_version(versions, e, mod) ==
    [h \in DOMAIN versions \cup {e.hash} |->
       IF h = e.hash THEN <<mod, e.size, e.mtime>> ELSE versions[h]]

\* A faulty record_version, without the test "fhash not in versions"
record_version_overwrite(versions, e, mod) == with_version(versions, e, mod)

\* A faulty record_version, which starts the versions of the file over when
\* the hash was already seen
record_version_restart(versions, e, mod) ==
    IF e.hash \in DOMAIN versions
    THEN with_version(EmptyFun, e, mod)
    ELSE with_version(versions, e, mod)

\* bio.py:138-139: the versions of a file after add_file has seen the entry
record_version(versions, e, mod) ==
    IF e.hash \in DOMAIN versions
    THEN versions
    ELSE with_version(versions, e, mod)

\* ModAnalysis.add_file on datafile_list dl and suspicious_files sus, with
\* the configured paths p: the two dictionaries it leaves and what it returns
add_file(dl, sus, p, e, mod) ==
    IF e.name.dir \in p.excluded_arc_dirs
    THEN [dl |-> dl, sus |-> sus, added |-> FALSE]
    ELSE [dl |-> [n \in DOMAIN dl \cup {e.name} |->
                    IF n = e.name
                    THEN record_version(IF n \in DOMAIN dl THEN dl[n] ELSE EmptyFun,
                                        e, mod)
                    ELSE dl[n]],
          sus |-> IF e.name.ext \in p.expected_exts
                  THEN sus
                  ELSE [m \in DOMAIN sus \cup {mod} |->
                          IF m = mod
                          THEN Append(IF m \in DOMAIN sus THEN sus[m] ELSE <<>>, e.name)
                          ELSE sus[m]],
          added |-> TRUE]

\* The loop of process_archive over the entries of a listing from the i-th
\* on: entries of size 0 are skipped, count is the number add_file accepted
RECURSIVE scan_entries(_, _, _, _, _)
scan_entries(acc, entries, i, mod, p) ==
    IF i > Len(entries)
    THEN acc
    ELSE IF entries[i].size = 0
    THEN scan_entries(acc, entries, i + 1, mod, p)
    ELSE LET r == add_file(acc.dl, acc.sus, p, entries[i], mod)
         IN scan_entries([dl |-> r.dl, sus |-> r.sus,
                          count |-> IF r.added THEN acc.count + 1 ELSE acc.count],
                         entries, i + 1, mod, p)

\* ModAnalysis.process_archive for the next archive traverse_archives walks to
process_archive ==
    /\ pc = "traverse_archives"
    /\ pending # <<>>
    /\ LET mod == Head(pending)
           r == scan_entries([dl |-> datafile_list, sus |-> suspicious_files,
                              count |-> 0],
                             archives[mod], 1, mod, path)
       IN /\ mod_list' = Append(mod_list, mod)
          /\ datafile_list' = r.dl
          /\ suspicious_files' = r.sus
          /\ mod_nodes' = mod_nodes \cup {mod}
          /\ file_count' = [m \in DOMAIN file_count \cup {mod} |->
                              IF m = mod THEN r.count ELSE file_count[m]]
    /\ pending' = Tail(pending)
    /\ UNCHANGED <<rerun, built, pc, err, cfg, free_mod, ordered_overlap_mod,
                   install_index, mod_edges, datafiles, norm, score, val,
                   removed, maxr, cand, FAS, k, graph, roots, ordered,
                   path, archives, overlapping_datafiles>>

\* bio.py:337-339: no file was recorded
no_archives_found ==
    /\ pc = "traverse_archives"
    /\ pending = <<>>
    /\ DOMAIN datafile_list = {}
    /\ pc' = "error"
    /\ err' = "ModAnalysisError"
    /\ UNCHANGED <<scan, rerun, built, cfg, mod_list, free_mod, ordered_overlap_mod,
                   mod_nodes, file_count, install_index, mod_edges, datafiles,
                   norm, score, val, removed, maxr, cand, FAS, k, graph, roots,
                   ordered>>

\* The dictionary set_overlapping_datafiles keeps of dl
overlapping_of(dl) ==
    [n \in {x \in DOMAIN dl : Cardinality(DOMAIN dl[x]) > 1} |-> dl[n]]

\* ModAnalysis.set_overlapping_datafiles, and the exit of bio.py:347-349
\* when nothing overlaps
set_overlapping_datafiles ==
    /\ pc = "traverse_archives"
    /\ pending = <<>>
    /\ DOMAIN datafile_list # {}
    /\ overlapping_datafiles' = overlapping_of(datafile_list)
    /\ pc' = IF DOMAIN overlapping_of(datafile_list) = {}
             THEN "exit"
             ELSE "overlapping_datafiles_to_graph"
    /\ UNCHANGED <<rerun, built, err, cfg, mod_list, free_mod, ordered_overlap_mod,
                   mod_nodes, file_count, install_index, mod_edges, datafiles,
                   norm, score, val, removed, maxr, cand, FAS, k, graph, roots,
                   ordered, path, archives, pending, datafile_list,
                   suspicious_files>>

\* ModAnalysis.overlapping_datafiles_to_graph, with del_isolated_nodes
overlapping_datafiles_to_graph ==
    /\ pc = "overlapping_datafiles_to_graph"
    /\ \E E \in {edges_of(overlapping_datafiles)} :
          /\ mod_edges' = E
          /\ built' = E
          /\ datafiles' = [e \in E |-> datafiles_of(overlapping_datafiles, e)]
          /\ mod_nodes' = mod_nodes \cap get_connected_nodes(E)
          /\ file_count' = Restrict(file_count, mod_nodes \cap get_connected_nodes(E))
    /\ pc' = "set_edge_props"
    /\ UNCHANGED <<scan, rerun, err, cfg, mod_list, free_mod, ordered_overlap_mod,
                   install_index, norm, score, val, removed, maxr, cand, FAS, k,
                   graph, roots, ordered>>

\* The state of mod_analysis when traverse_archives is called (bio.py:335)
InitScan ==
    /\ archives \in [Mods -> Listings]
    /\ pending = SubSeq(ModNames, 1, NumMods)
    /\ \E X \in {{}, {"docs"}} :
          path = [excluded_arc_dirs |-> X, expected_exts |-> {"nif"}]
    /\ datafile_list = EmptyFun
    /\ overlapping_datafiles = EmptyFun
    /\ suspicious_files = EmptyFun
    /\ mod_list = <<>>
    /\ mod_nodes = {}
    /\ mod_edges = {}
    /\ built = {}
    /\ file_count = EmptyFun
    /\ datafiles = EmptyFun
    /\ cfg = DefaultCfg({})
    /\ pc = "traverse_archives"
    /\ err = ""
    /\ free_mod = <<>>
    /\ ordered_overlap_mod = <<>>
    /\ install_index = EmptyFun
    /\ norm = EmptyFun
    /\ score = EmptyFun
    /\ val = EmptyFun
    /\ removed = {}
    /\ maxr = <<RZero, RZero, RZero>>
    /\ cand = <<>>
    /\ FAS = <<>>
    /\ k = 0
    /\ graph = {}
    /\ roots = <<>>
    /\ ordered = <<>>
    /\ FirstRun

NextScan ==
    \/ process_archive
    \/ no_archives_found
    \/ set_overlapping_datafiles
    \/ overlapping_datafiles_to_graph

SpecScan == InitScan /\ [][NextScan]_vars

\* datafile_list after the archives of order, from the i-th on, were
\* walked in that order starting with dl
RECURSIVE index_after(_, _, _)
index_after(order, i, dl) ==
    IF i > Len(order)
    THEN dl
    ELSE index_after(order, i + 1,
                     scan_entries([dl |-> dl, sus |-> EmptyFun, count |-> 0],
                                  archives[order[i]], 1, order[i], path).dl)

\* The archives of the version owners of an index
owners_of(od) == [f \in DOMAIN od |-> [h \in DOMAIN od[f] |-> od[f][h][1]]]

NoSharedVersion ==
    \A m1, m2 \in Mods :
        m1 # m2 =>
            \A i \in DOMAIN archives[m1], j \in DOMAIN archives[m2] :
                LET e1 == archives[m1][i]
                    e2 == archives[m2][j]
                IN (/\ e1.name = e2.name
                    /\ e1.size # 0
                    /\ e2.size # 0
                    /\ e1.name.dir \notin path.excluded_arc_dirs) => e1.hash # e2.hash

RECURSIVE tuples_seen(_, _, _)
tuples_seen(f, order, i) ==
    IF i > Len(order)
    THEN <<>>
    ELSE LET S == SelectSeq(archives[order[i]],
                            LAMBDA e : e.name = f /\ e.size # 0)
         IN [j \in 1..Len(S) |-> <<order[i], S[j].size, S[j].mtime, S[j].hash>>]
            \o tuples_seen(f, order, i + 1)

\* The (archive, size, mtime) of the first tuple of T with the hash h
first_seen(T, h) ==
    LET i == CHOOSE x \in 1..Len(T) :
                 /\ T[x][4] = h
                 /\ \A y \in 1..(x - 1) : T[y][4] # h
    IN <<T[i][1], T[i][2], T[i][3]>>

\* The index is what the tuples T seen for the name f make it
index_of_tuples(f, T) ==
    LET hashes == {T[i][4] : i \in 1..Len(T)}
    IN /\ f \in DOMAIN overlapping_datafiles <=> Cardinality(hashes) >= 2
       /\ f \in DOMAIN overlapping_datafiles =>
             /\ DOMAIN overlapping_datafiles[f] = hashes
             /\ \A h \in hashes : overlapping_datafiles[f][h] = first_seen(T, h)

\* C13: once the tuples are ingested, a filename is in overlapping_datafiles
\* exactly when entries of non-zero size with two distinct hashes or more
\* were seen for it, and each hash keeps the triple of the first tuple seen
\* with it.
C13_FirstSeen ==
    pc \in {"exit", "overlapping_datafiles_to_graph"} =>
        \A f \in Names : index_of_tuples(f, tuples_seen(f, mod_list, 1))

\* C13 as amended: the same, of the filenames whose first directory is not
\* one of excluded_arc_dirs; a filename under an excluded directory is never
\* in overlapping_datafiles.
C13_FirstSeenOfKept ==
    pc \in {"exit", "overlapping_datafiles_to_graph"} =>
        \A f \in Names :
            IF f.dir \in path.excluded_arc_dirs
            THEN f \notin DOMAIN overlapping_datafiles
            ELSE index_of_tuples(f, tuples_seen(f, mod_list, 1))

\* C13 witness: a filename overlaps, and one of its hashes was seen twice
\* with different sizes and times; another filename is under an excluded
\* directory with two hashes.
C13_Witness ==
    /\ pc = "overlapping_datafiles_to_graph"
    /\ NameF \in DOMAIN overlapping_datafiles
    /\ \E T \in {tuples_seen(NameF, mod_list, 1)} :
          \E i, j \in 1..Len(T) :
              /\ i < j
              /\ T[i][4] = T[j][4]
              /\ <<T[i][2], T[i][3]>> # <<T[j][2], T[j][3]>>
    /\ NameG.dir \in path.excluded_arc_dirs
    /\ \E T \in {tuples_seen(NameG, mod_list, 1)} :
          Cardinality({T[i][4] : i \in 1..Len(T)}) >= 2

\* C16: both day-offsets of every _FileProps of the graph are strictly
\* positive, whether the modification times are before, at or after the
\* first release.
C16_PositiveOffsets ==
    \A e \in DOMAIN datafiles :
        \A f \in DOMAIN datafiles[e] :
            /\ datafiles[e][f].mtimes[1] > 0
            /\ datafiles[e][f].mtimes[2] > 0

\* C16 witness: the graph holds a file with a version dated before the first
\* release and one dated after it, and a file with a version dated at the
\* first release and one dated after it.
C16_Witness ==
    /\ pc = "set_edge_props"
    /\ \E e \in mod_edges :
          /\ NameF \in DOMAIN datafiles[e]
          /\ NameG \in DOMAIN datafiles[e]
          /\ \E h1, h2 \in DOMAIN overlapping_datafiles[NameG] :
                /\ overlapping_datafiles[NameG][h1] = <<e[1], 1, Before>>
                /\ overlapping_datafiles[NameG][h2] = <<e[2], 1, After1>>
          /\ \E h1, h2 \in DOMAIN overlapping_datafiles[NameF] :
                /\ overlapping_datafiles[NameF][h1] = <<e[1], 1, StartSeconds>>
                /\ overlapping_datafiles[NameF][h2] = <<e[2], 2, After2>>
          /\ datafiles[e][NameF].mtimes[1] > datafiles[e][NameF].mtimes[2]

\* C22: the day-offsets of a _FileProps are in the order of the whole days
\* of the two modification times they are computed from: the version that is
\* not the later one does not get the larger offset.
C22_Monotone ==
    \A e \in DOMAIN datafiles :
        \A f \in DOMAIN datafiles[e] :
            \A v1, v2 \in DOMAIN overlapping_datafiles[f] :
                (/\ overlapping_datafiles[f][v1][1] = e[1]
                 /\ overlapping_datafiles[f][v2][1] = e[2]
                 /\ str_to_time(overlapping_datafiles[f][v1][3])
                       <= str_to_time(overlapping_datafiles[f][v2][3]))
                    => datafiles[e][f].mtimes[1] <= datafiles[e][f].mtimes[2]

\* C23: once the graph is built, any two distinct archives that each list
\* an entry of non-zero size with the same name f and different hashes are
\* joined by both edges, each with an entry for f whose sizes are those of
\* the two entries, mirrored; also when an archive walked earlier lists f
\* with the hash of one of them.  Stated of the names add_file records,
\* those outside excluded_arc_dirs.
C23_MirroredEdges ==
    pc = "set_edge_props" =>
        \A m1, m2 \in Mods :
            \A i \in DOMAIN archives[m1], j \in DOMAIN archives[m2] :
                LET e1 == archives[m1][i]
                    e2 == archives[m2][j]
                IN (/\ m1 # m2
                    /\ e1.name = e2.name
                    /\ e1.name.dir \notin path.excluded_arc_dirs
                    /\ e1.size # 0
                    /\ e2.size # 0
                    /\ e1.hash # e2.hash)
                   => /\ <<m1, m2>> \in mod_edges
                      /\ <<m2, m1>> \in mod_edges
                      /\ e1.name \in DOMAIN datafiles[<<m1, m2>>]
                      /\ e1.name \in DOMAIN datafiles[<<m2, m1>>]
                      /\ datafiles[<<m1, m2>>][e1.name].sizes = <<e1.size, e2.size>>
                      /\ datafiles[<<m2, m1>>][e1.name].sizes = <<e2.size, e1.size>>

----------------------------------------------------------------------------
(* The run of ModAnalysis.mod_analysis, bio.py:355-359 *)

\* bio.py:358 calls a method ModGraph does not define
count_mod_overlapped_files ==
    /\ pc = "broken"
    /\ pc' = "error"
    /\ err' = "AttributeError"
    /\ UNCHANGED <<scan, rerun, built, cfg, mod_list, free_mod, ordered_overlap_mod, mod_nodes,
                   file_count, install_index, mod_edges, datafiles, norm, score,
                   val, removed, maxr, cand, FAS, k, graph, roots, ordered>>

\* The runs whose three criterion coefficients are 1
Init ==
    /\ InitScore
    /\ cfg.size_coeff = 1
    /\ cfg.mtime_coeff = 1
    /\ cfg.fc_coeff = 1

Next ==
    \/ set_edge_props
    \/ set_directions
    \/ break_cycles_begin
    \/ pass1_step
    \/ pass1_exit
    \/ pass2_step
    \/ pass2_exit
    \/ count_mod_overlapped_files

Spec == Init /\ [][Next]_vars

\* C3: after set_directions the graph never holds both A->B and B->A.
C3_Antisymmetric ==
    pc = "break_cycles" => \A e \in mod_edges : <<e[2], e[1]>> \notin mod_edges

\* C4: set_directions leaves at least one direction of every pair of
\* archives the graph construction had joined.
C4_OneSurvives ==
    pc = "break_cycles" => \A e \in built : e \in mod_edges \/ <<e[2], e[1]>> \in mod_edges

\* C8: when the largest raw ratio of a family is 1, set_edge_props does not
\* end with a division by zero.
C8_DegenerateHandled ==
    (pc # "set_edge_props" /\ ROne \in Range(maxr)) =>
        ~(pc = "error" /\ err = "ZeroDivisionError")

\* C15: once break_cycles has completed, no step before tsort_graph aborts
\* the run.
C15_ReachesTsort == [][pc = "broken" => pc' # "error"]_vars

====
